---- MODULE Spec2Model ----
(***************************************************************************)
(* sdbusplus::server::object::object<Args...> (sdbusplus/server/object.hpp) *)
(*                                                                         *)
(* A composite D-Bus object: details::compose<Args...> constructs the      *)
(* interface modules, and object<Args...> drives the object-added /        *)
(* interface-added / object-removed signalling around their lifetime.      *)
(*                                                                         *)
(* One slot of `obj` is one C++ instance of object<Args...>.  `log[i]` is  *)
(* what instance i did to its collaborators, in program order: module      *)
(* constructors and destructors, calls into the SdBusInterface, and an     *)
(* exception leaving the operation.                                        *)
(***************************************************************************)
EXTENDS Integers, Sequences, FiniteSets, TLC

\* Number of instance slots.
MaxObj == 2
\* Largest length of the template parameter pack Args... .
MaxMods == 3
\* How many of the owners' later calls of check_action() emit (each one
\* lengthens a log), over all instances.
MaxCheck == 0

Ids == 1..MaxObj

\* The one bus connection every object is placed on, and the value of a
\* moved-from bus::bus (its internal unique_ptr is null).
Bus == "bus0"
NullBus == "nullptr"

\* The object path "/obj/<i>" handed to the constructor of instance i:
\* objects on one connection live at distinct paths.  A moved-from
\* std::string is in a valid but unspecified state, commonly empty.
PathOf(i) == "/obj/" \o ToString(i)
EmptyPath == ""

\* enum class action
EMIT_OBJECT_ADDED == "EMIT_OBJECT_ADDED"
EMIT_INTERFACE_ADDED == "EMIT_INTERFACE_ADDED"
DEFER_EMIT == "DEFER_EMIT"
action == {EMIT_OBJECT_ADDED, EMIT_INTERFACE_ADDED, DEFER_EMIT}

\* What SdBusInterface::sd_bus_emit_object_added hands back: an int, >= 0
\* on success ("ok"), a negative errno on failure ("err").
BusReturn == {"ok", "err"}

\* Placeholder for an event field that the event does not carry.
NoArg == "-"

VARIABLES
    nmods,   \* sizeof...(Args) of the object<Args...> type in use
    obj,     \* obj[i]: the members of instance i, and where it is in its life
    log,     \* log[i]: what instance i did, in program order
    called,  \* called[i]: emit_object_added() was invoked on instance i by its owner
    last     \* the owner's most recent call, when it is one whose argument or
             \* whose having taken place the instance does not show: the
             \* (bus, path, bool) constructor and check_action()

vars == <<nmods, obj, log, called, last>>

\* The record of a call, and of any other call.
Call(op, i, arg) == [op |-> op, id |-> i, arg |-> arg]
OtherCall == Call(NoArg, 0, NoArg)

Ev(kind, mod, bus, path, res) ==
    [kind |-> kind, mod |-> mod, bus |-> bus, path |-> path, res |-> res]

\* An instance before its constructor ran: no member holds a value yet.
NoObject ==
    [st |-> "none", bus |-> NoArg, path |-> NoArg, emitremoved |-> FALSE,
     act |-> NoArg, origin |-> 0]

(***************************************************************************)
(* details::compose_impl / details::compose                                *)
(***************************************************************************)

\* Mutation of compose_impl: the modules constructed before the failing one
\* are torn down in construction order.
compose_impl_forward(t, n, bus, path, k) ==
    IF k \in t..n
    THEN [j \in 1..(k - t) |-> Ev("ctor", t + j - 1, bus, path, "ok")]
         \o <<Ev("ctor_fail", k, bus, path, "throw")>>
         \o [j \in 1..(k - t) |-> Ev("dtor", t + j - 1, NoArg, NoArg, "ok")]
    ELSE [j \in 1..(n - t + 1) |-> Ev("ctor", t + j - 1, bus, path, "ok")]

\* compose_impl<T, Rest...>(bus, path) : T(bus, path), compose_impl<Rest...>(bus, path)
\* for the modules t..n of the pack.  Module k's constructor throws (k = 0:
\* none does).  A base that was constructed is destroyed when a later base
\* throws, so T is torn down after the unwinding of compose_impl<Rest...>.
RECURSIVE compose_impl(_, _, _, _, _)
compose_impl(t, n, bus, path, k) ==
    IF t = k
    THEN <<Ev("ctor_fail", t, bus, path, "throw")>>
    ELSE IF t = n
    THEN <<Ev("ctor", t, bus, path, "ok")>>
    ELSE <<Ev("ctor", t, bus, path, "ok")>>
         \o compose_impl(t + 1, n, bus, path, k)
         \o (IF k \in (t + 1)..n THEN <<Ev("dtor", t, NoArg, NoArg, "ok")>> ELSE <<>>)

\* Mutation of compose: there is no specialization for the empty pack, which
\* is composed like a pack of one module.
compose_nonempty(n, bus, path, k) ==
    compose_impl(1, IF n = 0 THEN 1 ELSE n, bus, path, k)

\* compose<Args...>(bus, path); compose<> constructs nothing.
compose(n, bus, path, k) ==
    IF n = 0 THEN <<>> ELSE compose_impl(1, n, bus, path, k)

\* Mutation of compose_impl_dtor: the bases are destroyed in declaration
\* order.
compose_impl_dtor_forward(t, n) ==
    [j \in 1..(n - t + 1) |-> Ev("dtor", t + j - 1, NoArg, NoArg, "ok")]

\* The implicit destructor of compose_impl<T, Rest...>: the bases are
\* destroyed in the reverse of their declaration, compose_impl<Rest...>
\* before T.
RECURSIVE compose_impl_dtor(_, _)
compose_impl_dtor(t, n) ==
    IF t = n
    THEN <<Ev("dtor", t, NoArg, NoArg, "ok")>>
    ELSE compose_impl_dtor(t + 1, n) \o <<Ev("dtor", t, NoArg, NoArg, "ok")>>

compose_dtor(n) ==
    IF n = 0 THEN <<>> ELSE compose_impl_dtor(1, n)

\* The implicit move constructor of compose<Args...>: every base is
\* move-constructed from the matching base of the source, in declaration
\* order.
compose_move(n) ==
    [j \in 1..n |-> Ev("move", j, NoArg, NoArg, "ok")]

(***************************************************************************)
(* object<Args...>                                                         *)
(***************************************************************************)

\* Mutation of emit_object_added: the flag is set but the bus layer is not
\* asked to emit.
emit_object_added_silent(o, rc) ==
    [o |-> [o EXCEPT !.emitremoved = TRUE], ev |-> <<>>]

\* Mutation of emit_object_added: the guard on the flag is missing.
emit_object_added_unguarded(o, rc) ==
    [o |-> [o EXCEPT !.emitremoved = TRUE],
     ev |-> <<Ev("object_added", 0, o.bus, o.path, rc)>>]

\* void emit_object_added(): the bus layer's return value rc is discarded.
emit_object_added(o, rc) ==
    IF ~o.emitremoved
    THEN [o |-> [o EXCEPT !.emitremoved = TRUE],
          ev |-> <<Ev("object_added", 0, o.bus, o.path, rc)>>]
    ELSE [o |-> o, ev |-> <<>>]

\* Mutation of emit_added: the fold runs right to left.
emit_added_reversed(n) ==
    [j \in 1..n |-> Ev("interface_added", n + 1 - j, NoArg, NoArg, "ok")]

\* (Args::emit_added(), ...): a fold over the comma operator, left to right.
emit_added(n) ==
    [j \in 1..n |-> Ev("interface_added", j, NoArg, NoArg, "ok")]

\* Mutation of check_action: EMIT_OBJECT_ADDED also announces every
\* interface on its own.
check_action_both(o, n, rc) ==
    IF o.act = EMIT_OBJECT_ADDED
    THEN [o |-> emit_object_added(o, rc).o,
          ev |-> emit_object_added(o, rc).ev \o emit_added(n)]
    ELSE IF o.act = EMIT_INTERFACE_ADDED
    THEN [o |-> o, ev |-> emit_added(n)]
    ELSE [o |-> o, ev |-> <<>>]

\* Mutation of check_action: only EMIT_INTERFACE_ADDED is told apart, so
\* DEFER_EMIT announces the object like EMIT_OBJECT_ADDED.
check_action_nodefer(o, n, rc) ==
    IF o.act = EMIT_INTERFACE_ADDED
    THEN [o |-> o, ev |-> emit_added(n)]
    ELSE emit_object_added(o, rc)

\* Mutation of check_action: EMIT_INTERFACE_ADDED marks the object as
\* announced.
check_action_marks(o, n, rc) ==
    IF o.act = EMIT_OBJECT_ADDED
    THEN emit_object_added(o, rc)
    ELSE IF o.act = EMIT_INTERFACE_ADDED
    THEN [o |-> [o EXCEPT !.emitremoved = TRUE], ev |-> emit_added(n)]
    ELSE [o |-> o, ev |-> <<>>]

\* Mutation of check_action: EMIT_OBJECT_ADDED announces the object whatever
\* the flag says.
check_action_unguarded(o, n, rc) ==
    IF o.act = EMIT_OBJECT_ADDED
    THEN emit_object_added_unguarded(o, rc)
    ELSE IF o.act = EMIT_INTERFACE_ADDED
    THEN [o |-> o, ev |-> emit_added(n)]
    ELSE [o |-> o, ev |-> <<>>]

\* void check_action()
check_action(o, n, rc) ==
    IF o.act = EMIT_OBJECT_ADDED
    THEN emit_object_added(o, rc)
    ELSE IF o.act = EMIT_INTERFACE_ADDED
    THEN [o |-> o, ev |-> emit_added(n)]
    ELSE [o |-> o, ev |-> <<>>]

\* object(bus::bus& bus, const char* path, action act = action::EMIT_OBJECT_ADDED)
\* The base compose<Args...> is constructed first; when it throws, no member
\* is initialised, the body does not run and neither does ~object().
object_ctor(i, path, act, n, k, rc) ==
    LET base == compose(n, Bus, path, k) IN
    IF k # 0
    THEN [o |-> [NoObject EXCEPT !.st = "failed"],
          ev |-> base \o <<Ev("throw", 0, NoArg, NoArg, "throw")>>]
    ELSE LET o0 == [st |-> "live", bus |-> Bus, path |-> path,
                    emitremoved |-> FALSE, act |-> act, origin |-> i]
             r == check_action(o0, n, rc)
         IN [o |-> r.o, ev |-> base \o r.ev]

\* Mutation of object_ctor_bool: the ternary is the wrong way round.
object_ctor_bool_swapped(i, path, deferSignal, n, k, rc) ==
    object_ctor(i, path,
                IF deferSignal THEN EMIT_OBJECT_ADDED ELSE DEFER_EMIT,
                n, k, rc)

\* object(bus::bus& bus, const char* path, bool deferSignal): delegates to
\* the constructor above.
object_ctor_bool(i, path, deferSignal, n, k, rc) ==
    object_ctor(i, path,
                IF deferSignal THEN DEFER_EMIT ELSE EMIT_OBJECT_ADDED,
                n, k, rc)

\* Mutation of object_dtor: object-removed is emitted once the modules are
\* gone.
object_dtor_late(o, n) ==
    compose_dtor(n)
    \o (IF o.emitremoved
        THEN <<Ev("object_removed", 0, o.bus, o.path, "ok")>>
        ELSE <<>>)

\* Mutation of object_dtor: object-removed is emitted whatever the flag says.
object_dtor_unconditional(o, n) ==
    <<Ev("object_removed", 0, o.bus, o.path, "ok")>> \o compose_dtor(n)

\* ~object(): the body runs before the members and the bases are destroyed.
object_dtor(o, n) ==
    (IF o.emitremoved
     THEN <<Ev("object_removed", 0, o.bus, o.path, "ok")>>
     ELSE <<>>)
    \o compose_dtor(n)

\* object(object&&) = default: memberwise.  The bus::bus and the std::string
\* are moved, the bool, the pointer and the const action are copied.
object_move_dst(o) ==
    [st |-> "live", bus |-> o.bus, path |-> o.path,
     emitremoved |-> o.emitremoved, act |-> o.act, origin |-> o.origin]

\* The source after the move: its bus handle is null, its path is whatever
\* the std::string move left (mp), its flag is untouched.
object_move_src(o, mp) ==
    [o EXCEPT !.bus = NullBus, !.path = mp]

(***************************************************************************)
(* The operations an owner can perform                                     *)
(***************************************************************************)

\* Instances are numbered in the order in which they come to life: slot i
\* is the next one to be used when every slot below it is in use.
Fresh(i) ==
    /\ obj[i].st = "none"
    /\ \A j \in Ids : j < i => obj[j].st # "none"

Init ==
    /\ nmods \in 0..MaxMods
    /\ obj = [i \in Ids |-> NoObject]
    /\ log = [i \in Ids |-> <<>>]
    /\ called = [i \in Ids |-> FALSE]
    /\ last = OtherCall

Construct(i) ==
    /\ Fresh(i)
    /\ \E act \in action, k \in 0..nmods, rc \in BusReturn :
         LET r == object_ctor(i, PathOf(i), act, nmods, k, rc) IN
         /\ obj' = [obj EXCEPT ![i] = r.o]
         /\ log' = [log EXCEPT ![i] = r.ev]
    /\ last' = OtherCall
    /\ UNCHANGED <<nmods, called>>

ConstructBool(i) ==
    /\ Fresh(i)
    /\ \E deferSignal \in BOOLEAN, k \in 0..nmods, rc \in BusReturn :
         LET r == object_ctor_bool(i, PathOf(i), deferSignal, nmods, k, rc) IN
         /\ obj' = [obj EXCEPT ![i] = r.o]
         /\ log' = [log EXCEPT ![i] = r.ev]
         /\ last' = Call("object_bool", i, IF deferSignal THEN "true" ELSE "false")
    /\ UNCHANGED <<nmods, called>>

EmitObjectAdded(i) ==
    /\ obj[i].st = "live"
    /\ \E rc \in BusReturn :
         LET r == emit_object_added(obj[i], rc) IN
         /\ obj' = [obj EXCEPT ![i] = r.o]
         /\ log' = [log EXCEPT ![i] = log[i] \o r.ev]
    /\ called' = [called EXCEPT ![i] = TRUE]
    /\ last' = OtherCall
    /\ UNCHANGED nmods

\* How many rounds of N interface-added instance i has logged after its
\* construction (a constructed EMIT_INTERFACE_ADDED instance logs one round
\* in its constructor, a move-constructed one logs none).
Rounds(i) ==
    IF nmods = 0 \/ obj[i].act # EMIT_INTERFACE_ADDED
    THEN 0
    ELSE Len(SelectSeq(log[i], LAMBDA e : e.kind = "interface_added")) \div nmods
         - (IF obj[i].origin = i THEN 1 ELSE 0)

RECURSIVE AllRounds(_)
AllRounds(n) == IF n = 0 THEN 0 ELSE Rounds(n) + AllRounds(n - 1)

\* check_action() is a public member: an owner can call it again on a
\* constructed instance.  With EMIT_INTERFACE_ADDED and N > 0 every call
\* emits N interface-added again; MaxCheck such calls are made at most.
CheckAction(i) ==
    /\ obj[i].st = "live"
    /\ (obj[i].act = EMIT_INTERFACE_ADDED /\ nmods > 0)
          => AllRounds(MaxObj) < MaxCheck
    /\ \E rc \in BusReturn :
         LET r == check_action(obj[i], nmods, rc) IN
         /\ obj' = [obj EXCEPT ![i] = r.o]
         /\ log' = [log EXCEPT ![i] = log[i] \o r.ev]
    /\ last' = Call("check_action", i, NoArg)
    /\ UNCHANGED <<nmods, called>>

MoveConstruct(s, d) ==
    /\ s # d
    /\ obj[s].st = "live"
    /\ Fresh(d)
    /\ \E mp \in {EmptyPath, obj[s].path} :
         obj' = [obj EXCEPT ![d] = object_move_dst(obj[s]),
                            ![s] = object_move_src(obj[s], mp)]
    /\ log' = [log EXCEPT ![d] = compose_move(nmods)]
    /\ last' = OtherCall
    /\ UNCHANGED <<nmods, called>>

Destroy(i) ==
    /\ obj[i].st = "live"
    /\ obj' = [obj EXCEPT ![i].st = "dead"]
    /\ log' = [log EXCEPT ![i] = log[i] \o object_dtor(obj[i], nmods)]
    /\ last' = OtherCall
    /\ UNCHANGED <<nmods, called>>

Next ==
    \/ \E i \in Ids : Construct(i)
    \/ \E i \in Ids : ConstructBool(i)
    \/ \E i \in Ids : EmitObjectAdded(i)
    \/ \E i \in Ids : CheckAction(i)
    \/ \E s \in Ids, d \in Ids : MoveConstruct(s, d)
    \/ \E i \in Ids : Destroy(i)

Spec == Init /\ [][Next]_vars

(***************************************************************************)
(* Reading the logs                                                        *)
(***************************************************************************)

\* The positions of log[i] that hold an event of the given kind.
Events(i, kind) == {j \in DOMAIN log[i] : log[i][j].kind = kind}
NumEv(i, kind) == Cardinality(Events(i, kind))

\* The events of one kind that instance i logged, in order.
Only(i, kind) == SelectSeq(log[i], LAMBDA e : e.kind = kind)

\* Instance i went through a constructor of its own (it is not the target
\* of a move, and its constructor did not throw).
Constructed(i) == obj[i].st \in {"live", "dead"} /\ obj[i].origin = i

\* The instances that hold (or held) the object first constructed in slot r:
\* r itself and every instance move-constructed from it.
Family(r) == {j \in Ids : obj[j].origin = r}
FamilyEvents(r, kind) ==
    UNION {{<<j, x>> : x \in Events(j, kind)} : j \in Family(r)}
FamilyAddedOk(r) ==
    {e \in FamilyEvents(r, "object_added") : log[e[1]][e[2]].res = "ok"}
FamilyDead(r) == Family(r) # {} /\ \A j \in Family(r) : obj[j].st = "dead"

(***************************************************************************)
(* C1..C3: object-removed against a successful object-added                *)
(***************************************************************************)

\* C1: for every object, object-removed is emitted at most once, only after
\* a whole-object object-added was emitted successfully, and (once every
\* instance holding the object is destroyed) whenever one was.
C1_RemovedIffAddedOnce ==
    \A r \in Ids :
        /\ Cardinality(FamilyEvents(r, "object_removed")) <= 1
        /\ FamilyEvents(r, "object_removed") # {} => FamilyAddedOk(r) # {}
        /\ (FamilyDead(r) /\ FamilyAddedOk(r) # {})
              => FamilyEvents(r, "object_removed") # {}

\* C2: when the only object-added emissions of a constructed object were
\* answered with an error by the bus layer, its flag is still false and no
\* object-removed is emitted for it.
C2_FailedAddLeavesUnannounced ==
    \A i \in Ids :
        (/\ Constructed(i)
         /\ Events(i, "object_added") # {}
         /\ \A j \in Events(i, "object_added") : log[i][j].res = "err")
        => /\ ~obj[i].emitremoved
           /\ Events(i, "object_removed") = {}

\* C3: an instance d that took over an announced object by move
\* construction (its flag is set though emit_object_added() never ran on
\* it): once d and the instances it was moved from are destroyed, exactly
\* one object-removed was emitted among them, for the bus and the path of
\* the original construction.
C3_MovedObjectRemovedOnce ==
    \A d \in Ids :
        LET r == obj[d].origin IN
        (/\ obj[d].st = "dead"
         /\ r # d
         /\ obj[d].emitremoved
         /\ ~called[d]
         /\ FamilyDead(r))
        => /\ Cardinality(FamilyEvents(r, "object_removed")) = 1
           /\ \A e \in FamilyEvents(r, "object_removed") :
                 /\ log[e[1]][e[2]].bus = Bus
                 /\ log[e[1]][e[2]].path = PathOf(r)

(***************************************************************************)
(* C4..C6: what each action emits                                          *)
(***************************************************************************)

\* C4: an object constructed with EMIT_OBJECT_ADDED asked the bus layer for
\* exactly one object-added, for its bus and path, and for no
\* interface-added; destroyed (without having been moved from) it asked
\* for exactly one object-removed, for the same bus and path.
C4_EmitObjectAdded ==
    \A i \in Ids :
        (Constructed(i) /\ obj[i].act = EMIT_OBJECT_ADDED)
        => /\ NumEv(i, "object_added") = 1
           /\ \A j \in Events(i, "object_added") :
                 log[i][j].bus = Bus /\ log[i][j].path = PathOf(i)
           /\ NumEv(i, "interface_added") = 0
           /\ (obj[i].st = "live") => NumEv(i, "object_removed") = 0
           /\ (obj[i].st = "dead" /\ obj[i].bus # NullBus)
                 => /\ NumEv(i, "object_removed") = 1
                    /\ \A j \in Events(i, "object_removed") :
                          log[i][j].bus = Bus /\ log[i][j].path = PathOf(i)

C4_Witness ==
    \E i \in Ids :
        /\ nmods = MaxMods
        /\ Constructed(i) /\ obj[i].act = EMIT_OBJECT_ADDED
        /\ obj[i].st = "dead" /\ obj[i].bus = Bus
        /\ NumEv(i, "object_removed") = 1

\* C5: the constructor of an object with EMIT_INTERFACE_ADDED emits, after
\* the N module constructors, exactly one interface-added per module, module
\* 1 first and module N last, and nothing else, and leaves the flag false;
\* as long as emit_object_added() was not called on the object, it has
\* emitted no object-added, its flag is false and its destruction emits no
\* object-removed.  (A later check_action() emits the N interface-added
\* again, in the same order.)
C5_EmitInterfaceAdded ==
    [][\A i \in Ids :
          /\ ((Construct(i) \/ ConstructBool(i))
                 /\ obj'[i].st = "live" /\ obj'[i].act = EMIT_INTERFACE_ADDED)
                => /\ log'[i] = [j \in 1..(2 * nmods) |->
                                    IF j <= nmods
                                    THEN Ev("ctor", j, Bus, PathOf(i), "ok")
                                    ELSE Ev("interface_added", j - nmods,
                                            NoArg, NoArg, "ok")]
                   /\ ~obj'[i].emitremoved
          /\ (obj'[i].st \in {"live", "dead"} /\ obj'[i].origin = i
                 /\ obj'[i].act = EMIT_INTERFACE_ADDED /\ ~called'[i])
                => /\ ~obj'[i].emitremoved
                   /\ \A j \in DOMAIN log'[i] :
                         log'[i][j].kind \notin {"object_added", "object_removed"}]_vars

C5_Witness ==
    \E i \in Ids :
        /\ nmods = MaxMods
        /\ Constructed(i) /\ obj[i].act = EMIT_INTERFACE_ADDED
        /\ obj[i].st = "dead" /\ ~called[i]
        /\ Len(Only(i, "interface_added")) = MaxMods

\* C6: an object constructed with DEFER_EMIT emits nothing and keeps its
\* flag false as long as emit_object_added() was not called on it; once it
\* was called, exactly one object-added has been emitted.
C6_DeferEmit ==
    \A i \in Ids :
        (Constructed(i) /\ obj[i].act = DEFER_EMIT)
        => /\ ~called[i]
                 => /\ NumEv(i, "object_added") = 0
                    /\ NumEv(i, "interface_added") = 0
                    /\ NumEv(i, "object_removed") = 0
                    /\ ~obj[i].emitremoved
           /\ called[i]
                 => /\ NumEv(i, "object_added") = 1
                    /\ NumEv(i, "interface_added") = 0
                    /\ obj[i].emitremoved

C6_Witness ==
    \E i \in Ids :
        /\ Constructed(i) /\ obj[i].act = DEFER_EMIT
        /\ called[i] /\ obj[i].st = "live"
        /\ NumEv(i, "object_added") = 1

(***************************************************************************)
(* C7..C10                                                                 *)
(***************************************************************************)

\* C7: a call of emit_object_added() on an object whose flag is already
\* true emits nothing and changes no member, and no instance ever logs
\* more than one object-added, however often emit_object_added() is called.
C7_EmitObjectAddedIdempotent ==
    [][\A i \in Ids :
          /\ (obj[i].emitremoved /\ EmitObjectAdded(i))
                => (obj' = obj /\ log' = log)
          /\ Cardinality({j \in DOMAIN log'[i] :
                              log'[i][j].kind = "object_added"}) <= 1]_vars

C7_Witness ==
    \E i \in Ids :
        /\ Constructed(i) /\ obj[i].act = EMIT_OBJECT_ADDED
        /\ called[i] /\ obj[i].st = "live"
        /\ NumEv(i, "object_added") = 1

\* The log of a construction in which the constructor of module k threw:
\* modules 1..k-1 constructed in order with (bus, path), module k failing,
\* modules k-1..1 destroyed, and the exception leaving the constructor.
FailedAt(i, k) ==
    [j \in 1..(2 * k) |->
        IF j < k THEN Ev("ctor", j, Bus, PathOf(i), "ok")
        ELSE IF j = k THEN Ev("ctor_fail", k, Bus, PathOf(i), "throw")
        ELSE IF j < 2 * k THEN Ev("dtor", 2 * k - j, NoArg, NoArg, "ok")
        ELSE Ev("throw", 0, NoArg, NoArg, "throw")]

\* C8: when the constructor of module k fails, modules 1..k-1 are torn down
\* in reverse order, modules k+1..N are never constructed, and nothing is
\* emitted for the object.
C8_ModuleCtorFailure ==
    \A i \in Ids :
        obj[i].st = "failed"
        => /\ \E k \in 1..nmods : log[i] = FailedAt(i, k)
           /\ NumEv(i, "object_added") = 0
           /\ NumEv(i, "interface_added") = 0
           /\ NumEv(i, "object_removed") = 0

C8_Witness ==
    \E i \in Ids :
        /\ obj[i].st = "failed"
        /\ nmods = MaxMods
        /\ Len(log[i]) = 2 * (MaxMods - 1) + 2
        /\ NumEv(i, "dtor") = MaxMods - 1

\* C9: an object-added emission that the bus layer answered with an error
\* is followed at once by the failure leaving the emitting operation.
C9_EmissionFailurePropagates ==
    \A i \in Ids :
        \A j \in Events(i, "object_added") :
            log[i][j].res = "err"
            => /\ j < Len(log[i])
               /\ log[i][j + 1].kind = "throw"

\* What the argument deferSignal stands for.
ActionFor(d) == IF d = "true" THEN DEFER_EMIT ELSE EMIT_OBJECT_ADDED

\* C10: every step of the (bus, path, deferSignal) constructor leaves the
\* instance and its log as the (bus, path, action) constructor does when
\* given DEFER_EMIT for true and EMIT_OBJECT_ADDED for false.
C10_BoolCtorEquivalent ==
    [][\A i \in Ids :
          ConstructBool(i)
          => /\ last'.arg \in {"true", "false"}
             /\ \E k \in 0..nmods, rc \in BusReturn :
                   LET want == object_ctor(i, PathOf(i), ActionFor(last'.arg),
                                           nmods, k, rc)
                   IN /\ obj'[i] = want.o
                      /\ log'[i] = want.ev]_vars

C10_Witness ==
    \E i \in Ids :
        /\ last = Call("object_bool", i, "true")
        /\ nmods = MaxMods
        /\ obj[i].st = "live" /\ obj[i].act = DEFER_EMIT
        /\ log[i] = compose(nmods, Bus, PathOf(i), 0)

(***************************************************************************)
(* C11, C12: order of signals and module lifetime                          *)
(***************************************************************************)

\* C11: in the log of a constructed object the N module constructors come
\* first and every object-added and interface-added comes after them; in
\* every log an object-removed comes before every module destructor.
C11_SignalsInsideModuleLifetime ==
    \A i \in Ids :
        /\ Constructed(i)
              => /\ Len(log[i]) >= nmods
                 /\ \A j \in 1..nmods : log[i][j].kind = "ctor"
                 /\ \A j \in Events(i, "object_added")
                              \cup Events(i, "interface_added") : j > nmods
        /\ \A j \in Events(i, "object_removed") :
              \A d \in Events(i, "dtor") : j < d

C11_Witness ==
    \E i \in Ids :
        /\ nmods = MaxMods
        /\ Constructed(i) /\ obj[i].st = "dead"
        /\ NumEv(i, "object_added") = 1
        /\ NumEv(i, "object_removed") = 1
        /\ NumEv(i, "dtor") = MaxMods

\* C12: the aggregate constructs module 1, ..., module N in this order, each
\* with the (bus, path) given to the object, and a destroyed instance has
\* torn them down as module N, ..., module 1.
C12_ComposeOrder ==
    \A i \in Ids :
        /\ Constructed(i)
              => /\ Len(log[i]) >= nmods
                 /\ \A j \in 1..nmods :
                       log[i][j] = Ev("ctor", j, Bus, PathOf(i), "ok")
                 /\ NumEv(i, "ctor") = nmods
        /\ obj[i].st = "live" => NumEv(i, "dtor") = 0
        /\ obj[i].st = "dead"
              => /\ Len(Only(i, "dtor")) = nmods
                 /\ \A j \in 1..nmods : Only(i, "dtor")[j].mod = nmods + 1 - j

C12_Witness ==
    \E i \in Ids :
        /\ nmods = MaxMods
        /\ obj[i].st = "dead"
        /\ Len(Only(i, "ctor")) = MaxMods
        /\ Len(Only(i, "dtor")) = MaxMods
        /\ Only(i, "dtor")[1].mod = MaxMods

(***************************************************************************)
(* C13, C14: the flag                                                      *)
(***************************************************************************)

\* The last event of a log is an object-added.
EndsWithAdded(l) == Len(l) > 0 /\ l[Len(l)].kind = "object_added"

\* C13: in every step, a flag that is true stays true; a flag of a living
\* instance that turns true does so with exactly one object-added appended
\* to its log; and a constructor leaves the flag true only if the
\* object-added it emitted is the one event after the construction of the
\* N modules (the flag was false when the aggregate was complete).
C13_FlagMonotonic ==
    [][\A i \in Ids :
          /\ obj[i].emitremoved => obj'[i].emitremoved
          /\ (obj[i].st = "live" /\ ~obj[i].emitremoved /\ obj'[i].emitremoved)
                => /\ Len(log'[i]) = Len(log[i]) + 1
                   /\ SubSeq(log'[i], 1, Len(log[i])) = log[i]
                   /\ EndsWithAdded(log'[i])
          /\ (obj[i].st = "none" /\ obj'[i].st = "live" /\ obj'[i].origin = i)
                => /\ obj'[i].emitremoved
                         <=> (Len(log'[i]) = nmods + 1 /\ EndsWithAdded(log'[i]))
                   /\ ~obj'[i].emitremoved
                         => \A j \in DOMAIN log'[i] :
                               log'[i][j].kind # "object_added"]_vars

C13_Witness ==
    \E i \in Ids :
        /\ Constructed(i) /\ obj[i].act = DEFER_EMIT
        /\ called[i] /\ obj[i].emitremoved /\ obj[i].st = "dead"
        /\ NumEv(i, "object_added") = 1

\* C14: once emit_object_added() was called on an object constructed with
\* EMIT_INTERFACE_ADDED, the object has emitted exactly one object-added,
\* after the N interface-added of its construction, its flag is set, and
\* its destruction emits exactly one object-removed.
C14_InterfaceAddedThenObjectAdded ==
    \A i \in Ids :
        (Constructed(i) /\ obj[i].act = EMIT_INTERFACE_ADDED /\ called[i])
        => /\ NumEv(i, "object_added") = 1
           /\ \A j \in Events(i, "object_added") : j > 2 * nmods
           /\ \A j \in (nmods + 1)..(2 * nmods) :
                 log[i][j].kind = "interface_added"
           /\ obj[i].emitremoved
           /\ obj[i].st = "live" => NumEv(i, "object_removed") = 0
           /\ obj[i].st = "dead" => NumEv(i, "object_removed") = 1

C14_Witness ==
    \E i \in Ids :
        /\ nmods = MaxMods
        /\ Constructed(i) /\ obj[i].act = EMIT_INTERFACE_ADDED
        /\ called[i] /\ obj[i].st = "dead"
        /\ NumEv(i, "object_removed") = 1

(***************************************************************************)
(* C15: the empty pack                                                     *)
(***************************************************************************)

\* C15: with no module in the pack, no module is constructed, moved or
\* destroyed; the log of an object constructed with EMIT_OBJECT_ADDED is
\* its object-added and, once destroyed (not moved from), its
\* object-removed, both for its bus and path; the log of an object
\* constructed with EMIT_INTERFACE_ADDED stays empty through construction
\* and destruction unless emit_object_added() is called on it.
C15_EmptyPack ==
    nmods = 0
    => \A i \in Ids :
          /\ \A j \in DOMAIN log[i] :
                log[i][j].kind \in {"object_added", "object_removed"}
          /\ (Constructed(i) /\ obj[i].act = EMIT_OBJECT_ADDED
                             /\ obj[i].bus # NullBus)
                => /\ Len(log[i]) = (IF obj[i].st = "dead" THEN 2 ELSE 1)
                   /\ \E rc \in BusReturn :
                         log[i][1] = Ev("object_added", 0, Bus, PathOf(i), rc)
                   /\ obj[i].st = "dead"
                         => log[i][2] = Ev("object_removed", 0, Bus, PathOf(i), "ok")
          /\ (Constructed(i) /\ obj[i].act = EMIT_INTERFACE_ADDED /\ ~called[i])
                => log[i] = <<>>

C15_Witness ==
    \E i \in Ids, j \in Ids :
        /\ nmods = 0
        /\ Constructed(i) /\ obj[i].act = EMIT_OBJECT_ADDED
        /\ obj[i].st = "dead" /\ Len(log[i]) = 2
        /\ Constructed(j) /\ obj[j].act = EMIT_INTERFACE_ADDED
        /\ obj[j].st = "dead" /\ log[j] = <<>>

(***************************************************************************)
(* C16: several objects on one connection                                  *)
(***************************************************************************)

\* The events of one kind, in any log, that carry path p.
PathEvents(p, kind) ==
    UNION {{<<j, x>> : x \in {y \in Events(j, kind) : log[j][y].path = p}}
              : j \in Ids}

\* No instance was move-constructed: construct, emit_object_added and
\* destroy are the only operations that took place.
NoMoves == \A j \in Ids : obj[j].origin \in {0, j}

\* Every object-removed for a path comes after an object-added for that
\* path, and there are no more of the former than of the latter.
RemovedFollowsAdded ==
    \A r \in Ids :
        LET removed == PathEvents(PathOf(r), "object_removed")
            added   == PathEvents(PathOf(r), "object_added")
        IN /\ Cardinality(removed) <= Cardinality(added)
           /\ \A e \in removed :
                 \E a \in added : a[1] = e[1] /\ a[2] < e[2]

\* C16: with objects at distinct paths on one connection and construct,
\* emit_object_added and destroy interleaved in any order, every
\* object-removed for a path follows an object-added for that path, no path
\* has more object-removed than object-added, and a step on one object
\* leaves the flag of every other object as it was (a step that changes the
\* flag of an object is no construct, emit_object_added or destroy of
\* another one).
C16_ObjectsIndependent ==
    [][/\ \A j \in Ids :
             obj'[j].emitremoved # obj[j].emitremoved
             => \A i \in Ids \ {j} :
                   ~(Construct(i) \/ ConstructBool(i) \/ EmitObjectAdded(i)
                        \/ Destroy(i))
       /\ (NoMoves => RemovedFollowsAdded)']_vars

C16_Witness ==
    /\ NoMoves
    /\ Constructed(1) /\ Constructed(2)
    /\ obj[1].st = "dead" /\ NumEv(1, "object_removed") = 1
    /\ obj[2].st = "live" /\ called[2] /\ obj[2].act = DEFER_EMIT
    /\ NumEv(2, "object_added") = 1

\* C17: check_action() can be called by the owner on a constructed object,
\* and the action the object was constructed with never changes while it is
\* live; on an object whose action is EMIT_OBJECT_ADDED or DEFER_EMIT the
\* call emits nothing and changes nothing: the flag, the notifications
\* emitted so far and every other object stay as they were.
C17_CheckActionReinvoked ==
    [][\A i \in Ids :
          /\ (obj[i].st = "live" /\ obj'[i].st = "live")
                => obj'[i].act = obj[i].act
          /\ (CheckAction(i) /\ obj[i].act \in {EMIT_OBJECT_ADDED, DEFER_EMIT})
                => /\ obj' = obj
                   /\ log' = log]_vars

C17_Witness ==
    \E i \in Ids :
        /\ last = Call("check_action", i, NoArg)
        /\ nmods = MaxMods
        /\ obj[i].st = "live" /\ obj[i].origin = i
        /\ obj[i].act = EMIT_OBJECT_ADDED /\ obj[i].emitremoved
        /\ Len(log[i]) = nmods + 1
        /\ NumEv(i, "object_added") = 1

====
